---- MODULE Spec2Model ----
(***************************************************************************)
(* HTTP Signatures (draft-cavage) as implemented by httpsig: src/src/lib.rs *)
(*                                                                         *)
(* Text is modelled as a sequence of characters.  A character is a pair    *)
(* <<class, atom>>: class "c" is a character of ordinary text, class "b"   *)
(* is a character of the Base64 alphabet, class "k" is a byte of a raw     *)
(* signature.  An atom other than a punctuation mark stands for a short    *)
(* run of characters that holds none of , = " space newline.               *)
(***************************************************************************)
EXTENDS Integers, Sequences, FiniteSets, TLC

\* ------------------------------------------------------------------ bounds
MaxHeaders == 3
MaxSegs == 3

\* -------------------------------------------------------------- characters
C(a) == <<"c", a>>
Comma == C(",")
Eq == C("=")
Quote == C("\"")
Space == C(" ")
Colon == C(":")
Newline == C("\n")
\* a byte outside visible ASCII: legal in a HeaderValue, refused by to_str
Obs == C("\\x80")

S(a) == <<C(a)>>

RequestTarget == S("(request-target)")
SignatureName == S("signature")
DateName == S("date")

\* str::to_ascii_lowercase, by table over the atoms of the model
LowerAtom(a) ==
    CASE a = "GET" -> "get"
      [] a = "POST" -> "post"
      [] a = "Date" -> "date"
      [] a = "Host" -> "host"
      [] a = "Signature" -> "signature"
      [] OTHER -> a

to_ascii_lowercase(s) == [i \in 1..Len(s) |-> <<s[i][1], LowerAtom(s[i][2])>>]

\* HeaderValue::to_str succeeds only on visible ASCII
to_str_ok(v) == \A i \in 1..Len(v) : v[i] # Obs

\* Option<T> is a sequence of length 0 (None) or 1 (Some)
None == <<>>
Some(x) == <<x>>
IsSome(o) == Len(o) = 1
unwrap_or(o, d) == IF IsSome(o) THEN o[1] ELSE d

\* ------------------------------------------------------------- str helpers
\* index of the first occurrence of character ch in s, 0 when there is none
RECURSIVE find_from(_, _, _)
find_from(s, ch, i) ==
    IF i > Len(s) THEN 0
    ELSE IF s[i] = ch THEN i
    ELSE find_from(s, ch, i + 1)

find(s, ch) == find_from(s, ch, 1)

\* str::split(ch): always at least one piece, empty pieces kept
RECURSIVE split(_, _)
split(s, ch) ==
    LET i == find(s, ch)
    IN  IF i = 0 THEN <<s>>
        ELSE <<SubSeq(s, 1, i - 1)>> \o split(SubSeq(s, i + 1, Len(s)), ch)

\* str::splitn(2, ch): one piece, or the text before and after the first ch
splitn2(s, ch) ==
    LET i == find(s, ch)
    IN  IF i = 0 THEN <<s>>
        ELSE <<SubSeq(s, 1, i - 1), SubSeq(s, i + 1, Len(s))>>

starts_with(s, ch) == Len(s) > 0 /\ s[1] = ch
ends_with(s, ch) == Len(s) > 0 /\ s[Len(s)] = ch

RECURSIVE trim_start_matches(_, _)
trim_start_matches(s, ch) ==
    IF starts_with(s, ch) THEN trim_start_matches(Tail(s), ch) ELSE s

RECURSIVE trim_end_matches(_, _)
trim_end_matches(s, ch) ==
    IF ends_with(s, ch) THEN trim_end_matches(SubSeq(s, 1, Len(s) - 1), ch) ELSE s

RECURSIVE join(_, _)
join(pieces, sep) ==
    IF Len(pieces) = 0 THEN <<>>
    ELSE IF Len(pieces) = 1 THEN pieces[1]
    ELSE pieces[1] \o sep \o join(Tail(pieces), sep)

\* ------------------------------------------------- parse_signature_parts
NoParts == [ok |-> FALSE, headers |-> None, key_id |-> None,
            signature |-> None, algorithm |-> None]

StartParts == [ok |-> TRUE, headers |-> None, key_id |-> None,
               signature |-> None, algorithm |-> None]

\* the value captured from a segment's text after the first '='
strip_quotes(value) == trim_end_matches(trim_start_matches(value, Quote), Quote)

\* parse_part with the quote test made only for the keys it recognizes
parse_part_quotes_of_known_keys(acc, part) ==
    LET kv == splitn2(part, Eq)
    IN  IF Len(kv) < 2 THEN NoParts
        ELSE LET key == kv[1]
                 quoted == starts_with(kv[2], Quote) /\ ends_with(kv[2], Quote)
                 value == trim_end_matches(trim_start_matches(kv[2], Quote), Quote)
             IN  IF key \notin {S("headers"), S("keyId"), S("algorithm"), S("signature")}
                 THEN acc
                 ELSE IF ~quoted THEN NoParts
                 ELSE CASE key = S("headers") -> [acc EXCEPT !.headers = Some(value)]
                        [] key = S("keyId") -> [acc EXCEPT !.key_id = Some(value)]
                        [] key = S("algorithm") -> [acc EXCEPT !.algorithm = Some(value)]
                        [] OTHER -> [acc EXCEPT !.signature = Some(value)]

\* one turn of the loop over the segments; acc.ok = FALSE is the early return
parse_part(acc, part) ==
    LET kv == splitn2(part, Eq)
    IN  IF Len(kv) < 2 THEN NoParts
        ELSE IF ~(starts_with(kv[2], Quote) /\ ends_with(kv[2], Quote)) THEN NoParts
        ELSE LET key == kv[1]
                 value == strip_quotes(kv[2])
             IN  CASE key = S("headers") -> [acc EXCEPT !.headers = Some(value)]
                   [] key = S("keyId") -> [acc EXCEPT !.key_id = Some(value)]
                   [] key = S("algorithm") -> [acc EXCEPT !.algorithm = Some(value)]
                   [] key = S("signature") -> [acc EXCEPT !.signature = Some(value)]
                   [] OTHER -> acc

RECURSIVE parse_loop(_, _)
parse_loop(acc, segs) ==
    IF Len(segs) = 0 THEN acc
    ELSE LET nxt == parse_part(acc, segs[1])
         IN  IF ~nxt.ok THEN NoParts ELSE parse_loop(nxt, Tail(segs))

parse_signature_parts(signature_string) ==
    LET acc == parse_loop(StartParts, split(signature_string, Comma))
    IN  IF acc.ok /\ IsSome(acc.key_id) /\ IsSome(acc.signature) THEN acc ELSE NoParts

\* ------------------------------------------------ http::HeaderMap (as used)
\* The map keeps one entry per name, in the order the names first arrived,
\* and under each entry its values in arrival order.  Names are lower case.
headers_find(map, name) ==
    LET key == to_ascii_lowercase(name)
        hits == {i \in 1..Len(map) : map[i].name = key}
    IN  IF hits = {} THEN 0 ELSE CHOOSE i \in hits : TRUE

\* HeaderMap::get: the first value under the name, whatever the name's case;
\* a text that is no header name (the empty one too) finds nothing
headers_get(map, name) ==
    LET i == headers_find(map, name)
    IN  IF i = 0 THEN None ELSE Some(map[i].values[1])

\* HeaderMap::iter: every entry in turn, its name once per value
RECURSIVE headers_iter(_)
headers_iter(map) ==
    IF Len(map) = 0 THEN <<>>
    ELSE [j \in 1..Len(map[1].values) |-> [name |-> map[1].name, value |-> map[1].values[j]]]
         \o headers_iter(Tail(map))

\* HeaderMap::remove: drops the entry with all its values by swap_remove, so
\* the last entry takes the place of the one removed
headers_remove(map, name) ==
    LET i == headers_find(map, name)
        n == Len(map)
    IN  IF i = 0 THEN map
        ELSE IF i = n THEN SubSeq(map, 1, n - 1)
        ELSE [j \in 1..(n - 1) |-> IF j = i THEN map[n] ELSE map[j]]

\* HeaderMap::insert: replaces every value under the name, or adds an entry
headers_insert(map, name, value) ==
    LET i == headers_find(map, name)
    IN  IF i = 0 THEN Append(map, [name |-> to_ascii_lowercase(name), values |-> <<value>>])
        ELSE [map EXCEPT ![i].values = <<value>>]

\* HeaderMap::append (request::Builder::header): one more value under the name
headers_append(map, name, value) ==
    LET i == headers_find(map, name)
    IN  IF i = 0 THEN Append(map, [name |-> to_ascii_lowercase(name), values |-> <<value>>])
        ELSE [map EXCEPT ![i].values = Append(@, value)]

\* parse_request: the wire's header lines appended one by one
RECURSIVE build_headers(_, _)
build_headers(map, wire) ==
    IF Len(wire) = 0 THEN map
    ELSE build_headers(headers_append(map, wire[1].name, wire[1].value), Tail(wire))

parse_request(method, uri, wire) ==
    [method |-> method, uri |-> uri, headers |-> build_headers(<<>>, wire)]

\* --------------------------------------------- external crypto and Base64
\* Ideal signature: the signature under a key is the signed bytes tagged
\* with the key, and verification compares.  Key pairs share a name.
sign_to_vec(private_key, payload) == <<<<"k", private_key>>>> \o payload

verifier_verify(public_key, to_verify, signature) ==
    signature = sign_to_vec(public_key, to_verify)

\* base64::encode: an injection of bytes into text of the Base64 alphabet
base64_encode(bytes) ==
    [i \in 1..Len(bytes) |->
        <<(IF bytes[i][1] = "k" THEN "bk" ELSE "b"), bytes[i][2]>>]

\* base64::decode: defined on the Base64 alphabet only
base64_valid(text) == \A i \in 1..Len(text) : text[i][1] \in {"b", "bk"}

base64_decode(text) ==
    [i \in 1..Len(text) |->
        <<(IF text[i][1] = "bk" THEN "k" ELSE "c"), text[i][2]>>]

\* ------------------------------------------------------ compute_signature
request_target_line(request) ==
    RequestTarget \o <<Colon, Space>> \o to_ascii_lowercase(request.method)
        \o <<Space>> \o request.uri

RECURSIVE sign_lines(_)
sign_lines(entries) ==
    IF Len(entries) = 0 THEN <<>>
    ELSE <<Newline>> \o entries[1].name \o <<Colon, Space>> \o entries[1].value
         \o sign_lines(Tail(entries))

payload_to_sign(request) ==
    request_target_line(request) \o sign_lines(headers_iter(request.headers))

\* Err when some header value is refused by to_str
compute_signature(request, private_key) ==
    LET entries == headers_iter(request.headers)
    IN  IF \E i \in 1..Len(entries) : ~to_str_ok(entries[i].value)
        THEN [ok |-> FALSE, bytes |-> <<>>]
        ELSE [ok |-> TRUE, bytes |-> sign_to_vec(private_key, payload_to_sign(request))]

\* ------------------------------------------------ create_signature_header
\* header_names with a name that repeats written once only
RECURSIVE header_names_once(_)
header_names_once(entries) ==
    IF Len(entries) = 0 THEN <<>>
    ELSE (IF Len(entries) > 1 /\ entries[2].name = entries[1].name THEN <<>>
          ELSE <<Space>> \o entries[1].name)
         \o header_names_once(Tail(entries))

RECURSIVE header_names(_)
header_names(entries) ==
    IF Len(entries) = 0 THEN <<>>
    ELSE <<Space>> \o entries[1].name \o header_names(Tail(entries))

create_signature_header(request, key_id, private_key) ==
    LET signature == compute_signature(request, private_key)
    IN  IF ~signature.ok THEN [ok |-> FALSE, text |-> <<>>]
        ELSE [ok |-> TRUE,
              text |-> S("keyId") \o <<Eq, Quote>> \o key_id \o <<Quote, Comma>>
                       \o S("headers") \o <<Eq, Quote>> \o RequestTarget
                       \o header_names(headers_iter(request.headers))
                       \o <<Quote, Comma>> \o S("signature") \o <<Eq, Quote>>
                       \o base64_encode(signature.bytes) \o <<Quote>>]

\* --------------------------------------------------- add_signature_header
\* add_signature_header without the removal of the old Signature header
add_signature_header_keeps_old(request, key_id, private_key) ==
    LET header == create_signature_header(request, key_id, private_key)
    IN  IF ~header.ok THEN [ok |-> FALSE, request |-> request]
        ELSE [ok |-> TRUE,
              request |-> [request EXCEPT
                  !.headers = headers_insert(@, SignatureName, header.text)]]

\* The old Signature header is removed first, and stays removed on an error.
add_signature_header(request, key_id, private_key) ==
    LET stripped == [request EXCEPT !.headers = headers_remove(@, SignatureName)]
        header == create_signature_header(stripped, key_id, private_key)
    IN  IF ~header.ok THEN [ok |-> FALSE, request |-> stripped]
        ELSE [ok |-> TRUE,
              request |-> [stripped EXCEPT
                  !.headers = headers_insert(@, SignatureName, header.text)]]

\* ------------------------------------------------- verify_signature_parts
Outcome(ok, value, err, decoded, verified, bytes) ==
    [ok |-> ok, value |-> value, err |-> err, decoded |-> decoded,
     verified |-> verified, bytes |-> bytes]

\* verify_lines with each header's line written under the lower-cased name
RECURSIVE verify_lines_lowercase_names(_, _, _)
verify_lines_lowercase_names(request, names, to_verify) ==
    IF Len(names) = 0 THEN [state |-> "go", to_verify |-> to_verify]
    ELSE LET header_name == names[1]
             header_value == headers_get(request.headers, header_name)
         IN  IF header_name = RequestTarget
             THEN verify_lines_lowercase_names(request, Tail(names),
                      to_verify \o request_target_line(request) \o <<Newline>>)
             ELSE IF IsSome(header_value)
             THEN IF ~to_str_ok(header_value[1])
                  THEN [state |-> "err", to_verify |-> to_verify]
                  ELSE verify_lines_lowercase_names(request, Tail(names),
                           to_verify \o to_ascii_lowercase(header_name)
                               \o <<Colon, Space>> \o header_value[1] \o <<Newline>>)
             ELSE [state |-> "false", to_verify |-> to_verify]

\* verify_lines with a missing header skipped instead of ending the loop
RECURSIVE verify_lines_skip_missing(_, _, _)
verify_lines_skip_missing(request, names, to_verify) ==
    IF Len(names) = 0 THEN [state |-> "go", to_verify |-> to_verify]
    ELSE LET header_name == names[1]
             header_value == headers_get(request.headers, header_name)
         IN  IF header_name = RequestTarget
             THEN verify_lines_skip_missing(request, Tail(names),
                      to_verify \o request_target_line(request) \o <<Newline>>)
             ELSE IF IsSome(header_value)
             THEN IF ~to_str_ok(header_value[1])
                  THEN [state |-> "err", to_verify |-> to_verify]
                  ELSE verify_lines_skip_missing(request, Tail(names),
                           to_verify \o header_name \o <<Colon, Space>>
                               \o header_value[1] \o <<Newline>>)
             ELSE verify_lines_skip_missing(request, Tail(names),
                      to_verify \o header_name \o <<Colon, Space, Newline>>)

\* the loop over the names of the headers list: "go" with the lines written
\* so far, "false" for a name the request lacks, "err" for a refused value
RECURSIVE verify_lines(_, _, _)
verify_lines(request, names, to_verify) ==
    IF Len(names) = 0 THEN [state |-> "go", to_verify |-> to_verify]
    ELSE LET header_name == names[1]
             header_value == headers_get(request.headers, header_name)
         IN  IF header_name = RequestTarget
             THEN verify_lines(request, Tail(names),
                      to_verify \o request_target_line(request) \o <<Newline>>)
             ELSE IF IsSome(header_value)
             THEN IF ~to_str_ok(header_value[1])
                  THEN [state |-> "err", to_verify |-> to_verify]
                  ELSE verify_lines(request, Tail(names),
                           to_verify \o header_name \o <<Colon, Space>>
                               \o header_value[1] \o <<Newline>>)
             ELSE [state |-> "false", to_verify |-> to_verify]

\* the default list taken to be the host header
default_headers_host == S("host")

default_headers == DateName

verify_signature_parts(request, parts, public_key) ==
    IF ~base64_valid(parts.signature[1])
    THEN Outcome(FALSE, FALSE, "base64", TRUE, FALSE, <<>>)
    ELSE
    LET signature == base64_decode(parts.signature[1])
        lines == verify_lines(request,
                     split(unwrap_or(parts.headers, default_headers), Space), <<>>)
        date == headers_get(request.headers, DateName)
    IN  CASE lines.state = "false" -> Outcome(TRUE, FALSE, "", TRUE, FALSE, <<>>)
          [] lines.state = "err" -> Outcome(FALSE, FALSE, "to_str", TRUE, FALSE, <<>>)
          [] OTHER ->
             IF Len(lines.to_verify) > 0
             THEN LET to_verify == SubSeq(lines.to_verify, 1, Len(lines.to_verify) - 1)
                  IN  Outcome(TRUE, verifier_verify(public_key, to_verify, signature),
                              "", TRUE, TRUE, to_verify)
             ELSE IF ~IsSome(date) THEN Outcome(TRUE, FALSE, "", TRUE, FALSE, <<>>)
             ELSE IF ~to_str_ok(date[1])
             THEN Outcome(FALSE, FALSE, "to_str", TRUE, FALSE, <<>>)
             ELSE LET to_verify == DateName \o <<Colon, Space>> \o date[1]
                  IN  Outcome(TRUE, verifier_verify(public_key, to_verify, signature),
                              "", TRUE, TRUE, to_verify)

\* --------------------------------------------------------- verify_request
\* verify_request handing a text the parser rejects on to the Base64 decoder
verify_request_decodes_unparsed(request, public_key) ==
    LET signature == headers_get(request.headers, SignatureName)
    IN  IF ~IsSome(signature) THEN Outcome(TRUE, FALSE, "", FALSE, FALSE, <<>>)
        ELSE IF ~to_str_ok(signature[1])
        THEN Outcome(FALSE, FALSE, "to_str", FALSE, FALSE, <<>>)
        ELSE LET parts == parse_signature_parts(signature[1])
             IN  IF ~parts.ok
                 THEN verify_signature_parts(request,
                          [StartParts EXCEPT !.signature = Some(signature[1])], public_key)
                 ELSE verify_signature_parts(request, parts, public_key)

verify_request(request, public_key) ==
    LET signature == headers_get(request.headers, SignatureName)
    IN  IF ~IsSome(signature) THEN Outcome(TRUE, FALSE, "", FALSE, FALSE, <<>>)
        ELSE IF ~to_str_ok(signature[1])
        THEN Outcome(FALSE, FALSE, "to_str", FALSE, FALSE, <<>>)
        ELSE LET parts == parse_signature_parts(signature[1])
             IN  IF ~parts.ok THEN Outcome(TRUE, FALSE, "", FALSE, FALSE, <<>>)
                 ELSE verify_signature_parts(request, parts, public_key)

\* ------------------------------------------------------------ the callers
\* What a caller holds: one request, built from the wire, then signed in
\* place, or given a Signature header by hand, and verified.
VARIABLES request, pc, before, last, signer, signature_string, parts

vars == <<request, pc, before, last, signer, signature_string, parts>>

Methods == {S("GET"), S("get"), S("POST")}
Uris == {S("/foo"), S("/bar")}
Values == {S("v1"), S("v2"), <<Obs>>}
KeyIds == {S("Test"), <<C("a"), Comma, C("b")>>, <<Quote, C("k")>>}
PrivateKeys == {"key1"}
PublicKeys == {"key1", "key2"}

Line(name, value) == [name |-> S(name), value |-> value]

\* header lines as they may arrive; a Signature line that is no parameter list
WireLines == {Line("Date", S("v1")), Line("date", S("v2")), Line("Host", S("v1")),
              Line("host", <<Obs>>), Line("Signature", S("v1"))}

RECURSIVE SeqsUpTo(_, _)
SeqsUpTo(set, n) ==
    IF n = 0 THEN {<<>>}
    ELSE LET shorter == SeqsUpTo(set, n - 1)
         IN  shorter \cup {Append(s, x) : s \in shorter, x \in set}

NoCall == [op |-> "none", ok |-> TRUE, value |-> FALSE, err |-> "", decoded |-> FALSE,
           verified |-> FALSE, bytes |-> <<>>, text |-> <<>>, key_id |-> <<>>, key |-> ""]

NoSigner == [key_id |-> <<>>, key |-> ""]

Init ==
    /\ \E method \in {S("GET"), S("POST")}, wire \in SeqsUpTo(WireLines, MaxHeaders) :
           request = parse_request(method, S("/foo"), wire)
    /\ pc = "built"
    /\ before = request
    /\ last = NoCall
    /\ signer = NoSigner
    /\ signature_string = <<>>
    /\ parts = NoParts

\* a session ends with its one verification or its one header creation
Open == last.op \notin {"verify", "create"}

\* httpsig::add_signature_header(&mut request, key_id, digest, &private_key);
\* a second call repeats the arguments of the first
AddSignatureHeader ==
    /\ Open
    /\ pc \in {"built", "signed"}
    /\ \E key_id \in KeyIds, private_key \in PrivateKeys :
           LET r == add_signature_header(request, key_id, private_key)
           IN  /\ pc = "signed" => (key_id = signer.key_id /\ private_key = signer.key)
               /\ request' = r.request
               /\ pc' = IF ~r.ok THEN "failed"
                        ELSE IF pc = "built" THEN "signed" ELSE "resigned"
               /\ last' = [NoCall EXCEPT !.op = "add", !.ok = r.ok,
                              !.err = IF r.ok THEN "" ELSE "to_str",
                              !.key_id = key_id, !.key = private_key]
               /\ signer' = [key_id |-> key_id, key |-> private_key]
    /\ before' = request
    /\ UNCHANGED <<signature_string, parts>>

\* httpsig::create_signature_header(&request, key_id, digest, &private_key)
CreateSignatureHeader ==
    /\ Open
    /\ pc = "built"
    /\ \E key_id \in KeyIds, private_key \in PrivateKeys :
           LET r == create_signature_header(request, key_id, private_key)
           IN  last' = [NoCall EXCEPT !.op = "create", !.ok = r.ok,
                           !.err = IF r.ok THEN "" ELSE "to_str", !.text = r.text,
                           !.key_id = key_id, !.key = private_key]
    /\ UNCHANGED <<request, pc, before, signer, signature_string, parts>>

\* httpsig::verify_request(&request, digest, &public_key)
VerifyRequest ==
    /\ Open
    /\ \E public_key \in PublicKeys :
           LET r == verify_request(request, public_key)
           IN  last' = [NoCall EXCEPT !.op = "verify", !.ok = r.ok, !.value = r.value,
                           !.err = r.err, !.decoded = r.decoded,
                           !.verified = r.verified, !.bytes = r.bytes,
                           !.key = public_key]
    /\ UNCHANGED <<request, pc, before, signer, signature_string, parts>>

\* ---- a signed request altered on its way: one change, Signature left alone
SetMethod ==
    /\ Open
    /\ pc = "signed"
    /\ \E method \in Methods \ {request.method} :
           request' = [request EXCEPT !.method = method]
    /\ pc' = "tampered"
    /\ before' = request
    /\ last' = NoCall
    /\ UNCHANGED <<signer, signature_string, parts>>

SetUri ==
    /\ Open
    /\ pc = "signed"
    /\ \E uri \in Uris \ {request.uri} :
           request' = [request EXCEPT !.uri = uri]
    /\ pc' = "tampered"
    /\ before' = request
    /\ last' = NoCall
    /\ UNCHANGED <<signer, signature_string, parts>>

SetHeaderValue ==
    /\ Open
    /\ pc = "signed"
    /\ \E i \in 1..Len(request.headers) :
       \E j \in 1..Len(request.headers[i].values) :
       \E value \in Values \ {request.headers[i].values[j]} :
           /\ request.headers[i].name # SignatureName
           /\ request' = [request EXCEPT !.headers[i].values[j] = value]
    /\ pc' = "tampered"
    /\ before' = request
    /\ last' = NoCall
    /\ UNCHANGED <<signer, signature_string, parts>>

\* ---- a request that arrives with a Signature header written by a sender
\* the string a sender following the draft signs for a headers list: one
\* line per name, joined by newlines; no string when a header is missing
RECURSIVE sender_lines(_, _)
sender_lines(req, names) ==
    IF Len(names) = 0 THEN <<>>
    ELSE <<IF names[1] = RequestTarget THEN request_target_line(req)
           ELSE to_ascii_lowercase(names[1]) \o <<Colon, Space>>
                    \o unwrap_or(headers_get(req.headers, names[1]), <<>>)>>
         \o sender_lines(req, Tail(names))

sender_strings(req, list) ==
    LET names == split(list, Space)
    IN  {join(sender_lines(req, names), <<Newline>>) :
            x \in {y \in {1} : \A k \in 1..Len(names) :
                      names[k] = RequestTarget \/ IsSome(headers_get(req.headers, names[k]))}}
        \cup {DateName \o <<Colon, Space>> \o headers_get(req.headers, DateName)[1] :
                 x \in {y \in {1} : IsSome(headers_get(req.headers, DateName))}}

\* the headers parameter: absent, empty, or a list of names
HeadersParams ==
    {None, Some(<<>>), Some(S("date")), Some(S("Date")), Some(S("host")),
     Some(S("(request-target)") \o <<Space>> \o S("host") \o <<Space>> \o S("date")),
     Some(S("x-none")), Some(S("date") \o <<Space>> \o S("x-none")),
     Some(S("host") \o <<Space>> \o S("x-none"))}

NotBase64 == S("!")

param(key, value) == S(key) \o <<Eq, Quote>> \o value \o <<Quote>>

signature_header(headers, signature) ==
    join(<<param("keyId", S("Test")), param("algorithm", S("rsa-sha256"))>>
         \o (IF IsSome(headers) THEN <<param("headers", headers[1])>> ELSE <<>>)
         \o <<param("signature", signature)>>, <<Comma>>)

\* Signature header values that are no parameter list the parser accepts
malformed_headers(req) ==
    {join(<<param("keyId", S("Test")), S("signature") \o <<Eq>> \o S("abc")>>, <<Comma>>),
     join(<<param("headers", S("date")), param("signature", S("abc"))>>, <<Comma>>),
     join(<<param("keyId", S("Test")), param("headers", S("date"))>>, <<Comma>>),
     <<Obs>>}

signature_headers(req) ==
    {signature_header(headers, signature) :
        headers \in HeadersParams, signature \in {NotBase64}}
    \cup UNION {{signature_header(headers, base64_encode(sign_to_vec("key1", bytes))) :
                    bytes \in sender_strings(req, unwrap_or(headers, DateName))} :
                headers \in HeadersParams}
    \cup malformed_headers(req)

\* request.headers_mut().insert("signature", signature_header)
InsertSignature ==
    /\ Open
    /\ pc = "built"
    /\ \E text \in signature_headers(request) :
           request' = [request EXCEPT !.headers = headers_insert(@, SignatureName, text)]
    /\ pc' = "received"
    /\ before' = request
    /\ last' = NoCall
    /\ UNCHANGED <<signer, signature_string, parts>>

Next ==
    \/ AddSignatureHeader
    \/ CreateSignatureHeader
    \/ VerifyRequest
    \/ SetMethod
    \/ SetUri
    \/ SetHeaderValue
    \/ InsertSignature

Spec == Init /\ [][Next]_vars

\* ------------------------------------------- the parser on its own inputs
\* Segments of a Signature header value, well formed and not
Segments ==
    {param("keyId", S("a")), param("keyId", S("b")),
     param("keyId", <<Quote>> \o S("a") \o <<Quote>>),
     param("keyId", <<>>),
     S("keyId") \o <<Eq>> \o S("a"),
     S("keyId") \o <<Eq, Quote>>,
     S("keyId") \o <<Eq, Quote>> \o S("a"),
     S("keyId"),
     <<Space>> \o param("keyId", S("a")),
     param("signature", S("s")),
     param("signature", S("s") \o <<Eq>>),
     param("signature", S("s") \o <<Quote>> \o S("t")),
     S("signature") \o <<Eq>> \o S("s") \o <<Quote>>,
     param("headers", S("date")),
     param("algorithm", S("rsa-sha256")),
     param("x", S("1")),
     S("x") \o <<Eq>> \o S("1"),
     <<>>}

ParseInputs == {join(segs, <<Comma>>) : segs \in SeqsUpTo(Segments, MaxSegs) \ {<<>>}}

InitParse ==
    /\ signature_string \in ParseInputs
    /\ parts = NoParts
    /\ pc = "input"
    /\ request = parse_request(S("GET"), S("/foo"), <<>>)
    /\ before = request
    /\ last = NoCall
    /\ signer = NoSigner

\* httpsig::parse_signature_parts(signature_string)
ParseSignatureParts ==
    /\ pc = "input"
    /\ parts' = parse_signature_parts(signature_string)
    /\ pc' = "parsed"
    /\ UNCHANGED <<request, before, last, signer, signature_string>>

NextParse == ParseSignatureParts

SpecParse == InitParse /\ [][NextParse]_vars

\* ------------------------------------------------- the parser's properties
\* the segments of a text: what lies between two neighbouring commas
Cuts(s) == {0, Len(s) + 1} \cup {i \in 1..Len(s) : s[i] = Comma}

SegmentsOf(s) ==
    {SubSeq(s, c[1] + 1, c[2] - 1) :
        c \in {d \in Cuts(s) \X Cuts(s) :
                  d[1] < d[2] /\ \A m \in Cuts(s) : ~(d[1] < m /\ m < d[2])}}

HasEq(seg) == \E i \in 1..Len(seg) : seg[i] = Eq
FirstEq(seg) == CHOOSE i \in 1..Len(seg) : seg[i] = Eq /\ \A j \in 1..(i - 1) : seg[j] # Eq
KeyOf(seg) == SubSeq(seg, 1, FirstEq(seg) - 1)
ValueOf(seg) == SubSeq(seg, FirstEq(seg) + 1, Len(seg))
Quoted(value) == Len(value) >= 1 /\ value[1] = Quote /\ value[Len(value)] = Quote

SomeSegmentWithoutEq(s) == \E seg \in SegmentsOf(s) : ~HasEq(seg)
SomeValueUnquoted(s) == \E seg \in SegmentsOf(s) : HasEq(seg) /\ ~Quoted(ValueOf(seg))
NoSegmentWithKey(s, key) == ~\E seg \in SegmentsOf(s) : HasEq(seg) /\ KeyOf(seg) = S(key)

\* C5: parse_signature_parts returns None exactly when some segment has no
\* '=', or some segment's value (whatever its key) does not both start and
\* end with a double quote, or no segment has the key keyId, or none has the
\* key signature; every other input is accepted, in any order of segments.
C5_ParserRejectionSet ==
    pc = "parsed" =>
        (~parts.ok <=>
            \/ SomeSegmentWithoutEq(signature_string)
            \/ SomeValueUnquoted(signature_string)
            \/ NoSegmentWithKey(signature_string, "keyId")
            \/ NoSegmentWithKey(signature_string, "signature"))

\* C5 witness: a text with both required keys, an '=' in every segment, that
\* is rejected for the unquoted value of a key the parser does not know
C5_Witness ==
    /\ pc = "parsed"
    /\ ~parts.ok
    /\ ~SomeSegmentWithoutEq(signature_string)
    /\ ~NoSegmentWithKey(signature_string, "keyId")
    /\ ~NoSegmentWithKey(signature_string, "signature")
    /\ \A seg \in SegmentsOf(signature_string) :
           ~Quoted(ValueOf(seg)) => KeyOf(seg) = S("x")

\* the value of the last segment whose key is key, without its two outer quotes
LastValue(s, key) ==
    LET segs == split(s, Comma)
        at == {i \in 1..Len(segs) : HasEq(segs[i]) /\ KeyOf(segs[i]) = S(key)}
        i == CHOOSE m \in at : \A k \in at : k <= m
        value == ValueOf(segs[i])
    IN  IF at = {} THEN None
        ELSE Some(IF Len(value) < 2 THEN <<>> ELSE SubSeq(value, 2, Len(value) - 1))

\* C10: the value captured for a key is the text after the first '=' of the
\* key's last segment with exactly one leading and one trailing double quote
\* removed, every other character (further quotes too) kept.
C10_QuoteStripping ==
    (pc = "parsed" /\ parts.ok) =>
        /\ parts.key_id = LastValue(signature_string, "keyId")
        /\ parts.signature = LastValue(signature_string, "signature")
        /\ parts.headers = LastValue(signature_string, "headers")
        /\ parts.algorithm = LastValue(signature_string, "algorithm")

\* ------------------------------------------- sign, then verify: properties
Signed == pc \in {"signed", "resigned"}

\* C1: after add_signature_header has succeeded, verify_request on the
\* resulting request with the matching public key returns true, for every
\* request (names that occur on several entries too) and every key id.
C1_RoundTrip ==
    (Signed /\ last.op = "verify" /\ last.key = signer.key) =>
        (last.ok /\ last.value)

\* C2: one change of the method, the URI or the value of one signed header
\* entry after signing, the Signature header left as it is, makes
\* verify_request with the matching public key return false without an error.
C2_TamperDetection ==
    (pc = "tampered" /\ last.op = "verify" /\ last.key = signer.key) =>
        (last.ok /\ ~last.value)

\* ---------------------------------------- properties of verify_request
\* the Signature header of the request read as verify_request reads it
HasSignature == IsSome(headers_get(request.headers, SignatureName))
SignatureText == headers_get(request.headers, SignatureName)[1]
Parsed == HasSignature /\ to_str_ok(SignatureText) /\ parse_signature_parts(SignatureText).ok
SignatureParts == parse_signature_parts(SignatureText)
ListedNames == split(unwrap_or(SignatureParts.headers, DateName), Space)

Carried(name) == \E e \in 1..Len(request.headers) :
                     request.headers[e].name = to_ascii_lowercase(name)
\* a listed name the request does not carry; the empty name, which a list
\* with a stray space holds, is carried by no request
Missing(k) == ListedNames[k] # RequestTarget /\ ~Carried(ListedNames[k])
NamesMissingHeader ==
    /\ Parsed
    /\ IsSome(SignatureParts.headers)
    /\ \E k \in 1..Len(ListedNames) : Missing(k) /\ ListedNames[k] # <<>>
FirstMissing == CHOOSE k \in 1..Len(ListedNames) :
                    Missing(k) /\ \A m \in 1..(k - 1) : ~Missing(m)
\* some name listed before the first missing one has a value to_str refuses
RefusedBeforeMissing ==
    \E m \in 1..(FirstMissing - 1) : \E e \in 1..Len(request.headers) :
        /\ ListedNames[m] # RequestTarget
        /\ request.headers[e].name = to_ascii_lowercase(ListedNames[m])
        /\ ~to_str_ok(request.headers[e].values[1])

\* C3 as claimed: whenever the headers list of the Signature header names a
\* header the request does not carry, verify_request returns Ok(false), never
\* an error, whatever the signature field holds (text that is no Base64 too)
\* and whatever the other named headers and their values are.
C3_MissingHeaderAlwaysFalse ==
    (last.op = "verify" /\ NamesMissingHeader) => (last.ok /\ ~last.value)

\* C3 as amended: when the list names a header the request does not carry,
\* verify_request never reaches the verifier and never returns true; it
\* returns Ok(false) when the signature field is valid Base64 and no header
\* named before the first missing one has a value to_str refuses, and an
\* error otherwise (Base64 is decoded before the list is walked).
C3_MissingHeaderPolicy ==
    (last.op = "verify" /\ NamesMissingHeader) =>
        /\ ~last.verified
        /\ ~last.value
        /\ last.ok <=> (base64_valid(SignatureParts.signature[1]) /\ ~RefusedBeforeMissing)
        /\ ~base64_valid(SignatureParts.signature[1]) => last.err = "base64"

\* C3 witness: a valid Base64 signature, a list whose first name is carried
\* and whose second is not, and verify_request has answered Ok(false)
C3_Witness ==
    /\ last.op = "verify"
    /\ NamesMissingHeader
    /\ FirstMissing = 2
    /\ base64_valid(SignatureParts.signature[1])
    /\ last.ok /\ ~last.value

\* C4: verify_request returns Ok(false) for a request without a Signature
\* header and for one whose Signature header value parse_signature_parts
\* rejects; neither Base64 decoding nor the verifier is reached.
C4_NoValidSignature ==
    (last.op = "verify" /\
        (~HasSignature \/ (to_str_ok(SignatureText) /\ ~parse_signature_parts(SignatureText).ok)))
    => (last.ok /\ ~last.value /\ ~last.decoded /\ ~last.verified)

\* C4 witness: a Signature header whose text the parser rejects, verified
C4_Witness ==
    /\ last.op = "verify"
    /\ HasSignature
    /\ to_str_ok(SignatureText)
    /\ ~parse_signature_parts(SignatureText).ok
    /\ find(SignatureText, Eq) # 0

\* the one line "date: <value of the request's Date header>"
DateCarried == Carried(DateName)
DateValue == (CHOOSE e \in {request.headers[i] : i \in 1..Len(request.headers)} :
                  e.name = DateName).values[1]
DateLineOf == DateName \o <<Colon, Space>> \o DateValue

\* the request with headers="date" added to its Signature header, in front or behind
WithHeadersDate(front) ==
    [request EXCEPT !.headers = headers_insert(@, SignatureName,
        IF front THEN param("headers", S("date")) \o <<Comma>> \o SignatureText
        ELSE SignatureText \o <<Comma>> \o param("headers", S("date")))]

SameOutcome(r) ==
    /\ r.ok = last.ok /\ r.value = last.value /\ r.err = last.err
    /\ r.verified = last.verified /\ r.bytes = last.bytes

NoHeadersParam == Parsed /\ ~IsSome(SignatureParts.headers)

DefaultEquivalence ==
    /\ \A front \in BOOLEAN : SameOutcome(verify_request(WithHeadersDate(front), last.key))
    /\ last.verified => (DateCarried /\ last.bytes = DateLineOf)

C9_EmptyListFallback ==
    (/\ last.op = "verify"
     /\ Parsed
     /\ SignatureParts.headers = Some(<<>>)
     /\ base64_valid(SignatureParts.signature[1])
     /\ DateCarried
     /\ to_str_ok(DateValue)) =>
        /\ last.ok
        /\ last.verified
        /\ last.bytes = DateLineOf
        /\ last.value = verifier_verify(last.key, DateLineOf,
                                        base64_decode(SignatureParts.signature[1]))

\* ------------------------------------------------ properties of the signer
\* the text of a parameter inside a Signature header value the encoder wrote
ParamOf(text, key) ==
    LET i == CHOOSE k \in 1..(Len(text) - 2) :
                 /\ text[k] = C(key) /\ text[k + 1] = Eq /\ text[k + 2] = Quote
                 /\ \A m \in (k + 1)..(Len(text) - 2) :
                        ~(text[m] = C(key) /\ text[m + 1] = Eq /\ text[m + 2] = Quote)
        rest == SubSeq(text, i + 3, Len(text))
        j == CHOOSE k \in 1..Len(rest) : rest[k] = Quote /\ \A m \in 1..(k - 1) : rest[m] # Quote
    IN  SubSeq(rest, 1, j - 1)

NotSignature(entry) == entry.name # SignatureName
Others(req) == SelectSeq(headers_iter(req.headers), NotSignature)
SignatureValues(req) == SelectSeq(headers_iter(req.headers), LAMBDA e : ~NotSignature(e))

\* the request without any Signature header, the other entries in place
WithoutSignature(req) == [req EXCEPT !.headers = SelectSeq(@, NotSignature)]

\* the request without its Signature entry, the entry that was last standing
\* where the Signature entry stood
WithLastInPlaceOfSignature(req) ==
    LET map == req.headers
        n == Len(map)
        at == {i \in 1..n : map[i].name = SignatureName}
    IN  IF at = {} \/ at = {n} THEN WithoutSignature(req)
        ELSE [req EXCEPT !.headers =
                 [j \in 1..(n - 1) |-> IF j \in at THEN map[n] ELSE map[j]]]

AddedOk == last.op = "add" /\ last.ok

InPlaceCommon ==
    /\ Len(SignatureValues(request)) = 1
    /\ \A k \in 1..Len(split(ParamOf(SignatureValues(request)[1].value, "headers"), Space)) :
           split(ParamOf(SignatureValues(request)[1].value, "headers"), Space)[k]
               # SignatureName
    /\ request.method = before.method
    /\ request.uri = before.uri
    /\ add_signature_header(request, signer.key_id, signer.key).request = request
    /\ pc = "resigned" => request = before

\* C7 as claimed: after add_signature_header has succeeded, with or without
\* a Signature header on the request before, there is exactly one Signature
\* header, its headers list does not name signature, its value is what
\* create_signature_header gives for the request with every Signature header
\* removed, the method, the URI and the other entries are unchanged in value
\* and order, and a second call changes nothing.
C7_InPlaceKeepsOrder ==
    AddedOk =>
        /\ InPlaceCommon
        /\ SignatureValues(request)[1].value =
               create_signature_header(WithoutSignature(before),
                                       signer.key_id, signer.key).text
        /\ Others(request) = Others(before)

\* C7 as amended: the same, but the other entries keep their order only when
\* the request carried no Signature header or carried it as its last entry;
\* otherwise the entry that was last stands where the Signature entry stood,
\* in the request and in the headers list that is signed.
C7_InPlaceSigning ==
    AddedOk =>
        /\ InPlaceCommon
        /\ SignatureValues(request)[1].value =
               create_signature_header(WithLastInPlaceOfSignature(before),
                                       signer.key_id, signer.key).text
        /\ Others(request) = Others(WithLastInPlaceOfSignature(before))
        /\ \A e \in 1..Len(Others(before)) :
               \E f \in 1..Len(Others(request)) : Others(request)[f] = Others(before)[e]
        /\ Len(Others(request)) = Len(Others(before))

\* C7 witness: a request signed in place that carried a Signature header in
\* front of two other entries
C7_Witness ==
    /\ AddedOk
    /\ Len(before.headers) = 3
    /\ before.headers[1].name = SignatureName
    /\ Others(request) # Others(before)

\* what the encoder is to write for the request and the key id of the call
EntryNames == [i \in 1..Len(headers_iter(request.headers)) |->
                  headers_iter(request.headers)[i].name]
EntryLines == [i \in 1..Len(headers_iter(request.headers)) |->
                  headers_iter(request.headers)[i].name \o <<Colon, Space>>
                      \o headers_iter(request.headers)[i].value]
SignedString == join(<<request_target_line(request)>> \o EntryLines, <<Newline>>)
ExpectedHeader ==
    join(<<param("keyId", last.key_id),
           param("headers", join(<<RequestTarget>> \o EntryNames, <<Space>>)),
           param("signature", base64_encode(sign_to_vec(last.key, SignedString)))>>,
         <<Comma>>)

\* the names of the list written, and the lines of the string that was signed
WrittenNames == split(ParamOf(last.text, "headers"), Space)
WrittenLines == split(Tail(base64_decode(ParamOf(last.text, "signature"))), Newline)

EncoderOutput ==
    /\ last.text = ExpectedHeader
    /\ Len(WrittenNames) = Len(WrittenLines)
    /\ Len(WrittenNames) = 1 + Len(headers_iter(request.headers))
    /\ \A i \in 1..Len(WrittenNames) :
           SubSeq(WrittenLines[i], 1, Len(WrittenNames[i]) + 2)
               = WrittenNames[i] \o <<Colon, Space>>

AllValuesConvert ==
    \A i \in 1..Len(headers_iter(request.headers)) :
        to_str_ok(headers_iter(request.headers)[i].value)

\* C8 as claimed: for every request and key id create_signature_header
\* returns keyId="<key_id>",headers="<list>",signature="<base64>", the list
\* being (request-target) and one name per header entry in iteration order,
\* name i of the list being the name of line i of the string signed.
C8_EncoderAlwaysReturns ==
    last.op = "create" => (last.ok /\ EncoderOutput)

\* C8 as amended: create_signature_header returns that text for every request
\* whose header values to_str accepts, and an error for every other request.
C8_EncoderOutput ==
    last.op = "create" =>
        /\ last.ok <=> AllValuesConvert
        /\ last.ok => EncoderOutput

\* C8 witness: a header written for a request with a name on two entries
C8_Witness ==
    /\ last.op = "create"
    /\ last.ok
    /\ Len(request.headers) = 2
    /\ Len(headers_iter(request.headers)) = 3
    /\ last.key_id # S("Test")

\* ---------------------------------------------- the string that is verified
\* the first entry of the request under the name, whatever the name's case
EntryOf(name) == CHOOSE e \in 1..Len(request.headers) :
                     /\ request.headers[e].name = to_ascii_lowercase(name)
                     /\ \A d \in 1..(e - 1) :
                            request.headers[d].name # to_ascii_lowercase(name)
\* the line a listed name stands for: the name as the list spells it
ListedLine(k) ==
    IF ListedNames[k] = RequestTarget
    THEN S("(request-target)") \o <<Colon, Space>>
             \o to_ascii_lowercase(request.method) \o <<Space>> \o request.uri
    ELSE ListedNames[k] \o <<Colon, Space>>
             \o request.headers[EntryOf(ListedNames[k])].values[1]
AllListedCarried ==
    \A k \in 1..Len(ListedNames) :
        ListedNames[k] = RequestTarget \/ Carried(ListedNames[k])
AllListedConvert ==
    \A k \in 1..Len(ListedNames) :
        (ListedNames[k] # RequestTarget /\ Carried(ListedNames[k])) =>
            to_str_ok(request.headers[EntryOf(ListedNames[k])].values[1])
ListedString == join([k \in 1..Len(ListedNames) |-> ListedLine(k)], <<Newline>>)

\* C11: in verify_request every listed name other than (request-target) is
\* found exactly when the request carries a header of that name in any case,
\* so the verifier is reached only if every listed name is carried; the
\* string verified is then one line per listed name in list order, the name
\* spelled as in the list, ": " and the header's value, lines separated by
\* one newline with none at the end, and (request-target) gives
\* "(request-target): <lower-cased method> <uri>".
C11_CaseAsymmetry ==
    (/\ last.op = "verify"
     /\ Parsed
     /\ base64_valid(SignatureParts.signature[1])) =>
        /\ last.verified => AllListedCarried
        /\ (AllListedCarried /\ AllListedConvert) =>
              /\ last.ok /\ last.verified
              /\ last.bytes = ListedString

\* C11 witness: the list names Date in capitals, the request carries date,
\* and the string "Date: <value>" has been verified
C11_Witness ==
    /\ last.op = "verify"
    /\ Parsed
    /\ SignatureParts.headers = Some(S("Date"))
    /\ last.verified
    /\ request.headers[EntryOf(S("Date"))].name = S("date")
    /\ last.bytes = S("Date") \o <<Colon, Space>> \o S("v1")

\* C11 witness of the other lines: (request-target) first of three names,
\* under the method GET
C11_WitnessTarget ==
    /\ last.op = "verify"
    /\ Parsed
    /\ Len(ListedNames) = 3
    /\ ListedNames[1] = RequestTarget
    /\ request.method = S("GET")
    /\ last.verified
    /\ last.bytes = ListedString

====
